---- MODULE Spec2Model ----
(***************************************************************************)
(* env-secure: the file codec of lib/secure-env.js (encryptString,         *)
(* decryptString, getSecretKey, encryptEnv, decryptEnv) and the four       *)
(* commands of bin/env-secure.js (set-key, encrypt, decrypt, rotate-key),  *)
(* acting on the two files .env and .env.enc of one working directory.     *)
(*                                                                         *)
(* Text is a sequence of one-character strings.  A file is the sequence of *)
(* its lines, i.e. its text split at "\n" (what content.split("\n") gives  *)
(* and what lines.join("\n") writes back); an absent file is the empty     *)
(* sequence, an empty file is the single empty line.  A line is a record   *)
(* [pre, tok]: the characters pre, followed by the hex text of the         *)
(* ciphertext token tok when tok # NoTok.                                  *)
(*                                                                         *)
(* AES-256-CBC and scrypt are modelled symbolically: a token records the   *)
(* IV, the key and the plaintext it was made from; scrypt is injective;    *)
(* opening a token with the key that made it gives the plaintext back;     *)
(* opening it with another key either fails the PKCS#7 padding check       *)
(* ("bad decrypt") or, when the padding happens to be valid, returns       *)
(* Garbage, text that does not hold the ENV_SECURE_KEY= label.             *)
(***************************************************************************)
EXTENDS Integers, Sequences, FiniteSets, TLC

\* ---- bounds --------------------------------------------------------------
\* most lines in the .env file handed to the file codec
MaxLines == 3
\* most lines in the .env file the directory holds before the first command
MaxDirLines == 1
\* longest answer typed at a secret-key prompt
MaxVal == 1
\* number of distinct values crypto.randomBytes(16) is drawn from
NumIV == 1

\* ---- text ----------------------------------------------------------------
Label == <<"E", "N", "V", "_", "S", "E", "C", "U", "R", "E", "_", "K", "E", "Y", "=">>

HeaderMarker == <<"S", "E", "C", "R", "E", "T", "_", "K", "E", "Y", "=">>

\* characters String.prototype.trim removes (of those the model uses)
IsSpace(c) == c = " "

RECURSIVE TrimStart(_)
TrimStart(s) == IF s # <<>> /\ IsSpace(Head(s)) THEN TrimStart(Tail(s)) ELSE s

RECURSIVE TrimEnd(_)
TrimEnd(s) ==
  IF s # <<>> /\ IsSpace(s[Len(s)]) THEN TrimEnd(SubSeq(s, 1, Len(s) - 1)) ELSE s

\* String.prototype.trim
Trim(s) == TrimEnd(TrimStart(s))

\* String.prototype.startsWith
StartsWith(s, p) == Len(s) >= Len(p) /\ SubSeq(s, 1, Len(p)) = p

\* positions at which p occurs in s
Occurrences(s, p) ==
  {i \in 1..Len(s) : i + Len(p) - 1 <= Len(s) /\ SubSeq(s, i, i + Len(p) - 1) = p}

Min(S) == CHOOSE x \in S : \A y \in S : x <= y

\* ---- keys and tokens -----------------------------------------------------
\* a string used as key material; d counts the scrypt derivations applied
Raw(s) == [d |-> 0, s |-> s]

\* crypto.scryptSync(x, salt, keyLength) with the fixed salt: deterministic
\* and (by assumption) collision free
Scrypt(x) == [d |-> x.d + 1, s |-> x.s]

\* !secretKey of encryptString/decryptString: only the empty string is falsy
\* (a Buffer is always truthy)
Falsy(x) == x.d = 0 /\ x.s = <<>>

IVs == 0..(NumIV - 1)

NoTok == [iv |-> 0 - 1, key |-> Raw(<<>>), text |-> <<>>]

Plain(s) == [pre |-> s, tok |-> NoTok]

TokLine(pre, t) == [pre |-> pre, tok |-> t]

Absent == <<>>

EmptyFile == <<Plain(<<>>)>>

\* what a decipher returns when a wrong key happens to leave valid padding
Garbage == <<"?">>

Ok(v) == [ok |-> TRUE, err |-> "", val |-> v]

Err(e) == [ok |-> FALSE, err |-> e, val |-> <<>>]

\* deriveKeyFromPassphrase, were the key derived from the salt alone
deriveKeyFromPassphrase_saltOnly(passphrase) ==
  IF passphrase = <<>> THEN [ok |-> FALSE, err |-> "PassphraseEmpty", key |-> Raw(<<>>)]
  ELSE [ok |-> TRUE, err |-> "", key |-> Scrypt(Raw(<<"s">>))]

\* deriveKeyFromPassphrase
deriveKeyFromPassphrase(passphrase) ==
  IF passphrase = <<>> THEN [ok |-> FALSE, err |-> "PassphraseEmpty", key |-> Raw(<<>>)]
  ELSE [ok |-> TRUE, err |-> "", key |-> Scrypt(Raw(passphrase))]

\* encryptString, were it to trim the text before sealing it
encryptString_trimmed(text, secretKey, iv) ==
  IF text = <<>> \/ Falsy(secretKey)
  THEN [ok |-> FALSE, err |-> "TextAndKeyRequired", tok |-> NoTok]
  ELSE [ok |-> TRUE, err |-> "",
        tok |-> [iv |-> iv, key |-> Scrypt(secretKey), text |-> Trim(text)]]

\* encryptString(text, secretKey) with the IV that randomBytes returned
encryptString(text, secretKey, iv) ==
  IF text = <<>> \/ Falsy(secretKey)
  THEN [ok |-> FALSE, err |-> "TextAndKeyRequired", tok |-> NoTok]
  ELSE [ok |-> TRUE, err |-> "",
        tok |-> [iv |-> iv, key |-> Scrypt(secretKey), text |-> text]]

\* decryptString(encryptedText, secretKey); encryptedText is a piece of a
\* line, validPad says whether a wrong key leaves valid padding
decryptString(piece, secretKey, validPad) ==
  IF (piece.pre = <<>> /\ piece.tok = NoTok) \/ Falsy(secretKey)
    THEN Err("TextAndKeyRequired")
  ELSE IF piece.tok = NoTok \/ piece.pre # <<>>
    THEN Err("MalformedToken")
  ELSE IF piece.tok.key = Scrypt(secretKey)
    THEN Ok(piece.tok.text)
  ELSE IF validPad THEN Ok(Garbage)
  ELSE Err("BadDecrypt")

\* ---- secret key lifecycle --------------------------------------------------
\* content.match(/ENV_SECURE_KEY=(.+)/) on one line of text: the leftmost
\* occurrence of the label that at least one character follows; the group
\* runs to the end of the line ('.' does not match a line terminator)
MatchLabel(s) ==
  LET cands == {i \in Occurrences(s, Label) : i + Len(Label) <= Len(s)}
  IN  IF cands = {} THEN [found |-> FALSE, val |-> <<>>]
      ELSE [found |-> TRUE, val |-> SubSeq(s, Min(cands) + Len(Label), Len(s))]

\* the same match on a whole file: the first line that matches
MatchFile(content) ==
  LET hits == {i \in 1..Len(content) : MatchLabel(content[i].pre).found}
  IN  IF hits = {} THEN [found |-> FALSE, val |-> <<>>]
      ELSE MatchLabel(content[Min(hits)].pre)

\* getSecretKey: null (found = FALSE) when .env is absent or holds no match,
\* else the trimmed group
getSecretKey(envFile) ==
  IF envFile = Absent THEN [found |-> FALSE, val |-> <<>>]
  ELSE LET m == MatchFile(envFile)
       IN  IF ~m.found \/ m.val = <<>> THEN [found |-> FALSE, val |-> <<>>]
           ELSE [found |-> TRUE, val |-> Trim(m.val)]

\* isSecretKeySet, were the pattern anchored at the start of a line
isSecretKeySet_lineStart(envFile) ==
  /\ envFile # Absent
  /\ \E i \in 1..Len(envFile) : StartsWith(envFile[i].pre, Label)

\* isSecretKeySet: /ENV_SECURE_KEY=/.test(content)
isSecretKeySet(envFile) ==
  /\ envFile # Absent
  /\ \E i \in 1..Len(envFile) : Occurrences(envFile[i].pre, Label) # {}

\* updateSecretKey: the file written is `ENV_SECURE_KEY=${newSecretKey}\n`
updateSecretKey(newSecretKey) == <<Plain(Label \o newSecretKey), Plain(<<>>)>>

\* ---- file codec ----------------------------------------------------------
\* the passthrough test, were it to look for "#" after trimming the line
IsPassthrough_trimmedHash(line) ==
  \/ (line.tok = NoTok /\ Trim(line.pre) = <<>>)
  \/ StartsWith(Trim(line.pre), <<"#">>)

\* line.trim() === "" || line.startsWith("#")
IsPassthrough(line) ==
  \/ (line.tok = NoTok /\ Trim(line.pre) = <<>>)
  \/ StartsWith(line.pre, <<"#">>)

\* the calls of encryptString that encryptEnv makes on a file: 1 for the
\* header, i + 1 for line i when it is neither blank nor a comment
SealCalls(content) ==
  {1} \cup {i + 1 : i \in {j \in 1..Len(content) : ~IsPassthrough(content[j])}}

\* encryptEnv up to the write: the error thrown, or the lines to be written.
\* ivs[c] is the IV randomBytes returns in call c
encryptEnv(content, passphrase, ivs) ==
  LET secretKey == getSecretKey(content)
      derived   == deriveKeyFromPassphrase(passphrase)
      header    == encryptString(Label \o secretKey.val, derived.key, ivs[1])
      body      == [i \in 1..Len(content) |->
                      IF IsPassthrough(content[i]) THEN content[i]
                      ELSE TokLine(<<>>,
                             encryptString(content[i].pre, Raw(secretKey.val), ivs[i + 1]).tok)]
  IN  IF content = Absent THEN [ok |-> FALSE, err |-> "NotExist", out |-> Absent]
      ELSE IF ~secretKey.found \/ secretKey.val = <<>>
        THEN [ok |-> FALSE, err |-> "SecretKeyRequired", out |-> Absent]
      ELSE IF content = EmptyFile THEN [ok |-> FALSE, err |-> "Empty", out |-> Absent]
      ELSE IF ~derived.ok THEN [ok |-> FALSE, err |-> derived.err, out |-> Absent]
      ELSE [ok |-> TRUE, err |-> "", out |-> <<TokLine(HeaderMarker, header.tok)>> \o body]

\* secretKeyLine.split("=")[1]: the piece between the first and the second
\* "=" of the line (undefined, modelled as the empty piece, when there is
\* no "="; both are falsy in decryptString)
SplitEq1(line) ==
  LET eqs == {i \in 1..Len(line.pre) : line.pre[i] = "="}
  IN  IF eqs = {} THEN Plain(<<>>)
      ELSE LET i    == Min(eqs)
               more == {j \in eqs : j > i}
           IN  IF more = {} THEN TokLine(SubSeq(line.pre, i + 1, Len(line.pre)), line.tok)
               ELSE Plain(SubSeq(line.pre, i + 1, Min(more) - 1))

\* the first error of a sequence of results, "" when there is none
FirstErr(rs) ==
  LET bad == {i \in 1..Len(rs) : ~rs[i].ok}
  IN  IF bad = {} THEN "" ELSE rs[Min(bad)].err

\* decryptEnv up to the write: the error thrown, or the lines to be written.
\* pads is the set of line numbers (0 for the header) at which a wrong key
\* leaves valid padding
decryptEnv(content, passphrase, pads) ==
  LET secretKeyLine == content[1]
      derived   == deriveKeyFromPassphrase(passphrase)
      opened    == decryptString(SplitEq1(secretKeyLine), derived.key, 0 \in pads)
      m         == MatchLabel(opened.val)
      rest      == SubSeq(content, 2, Len(content))
      results   == [i \in 1..Len(rest) |->
                      IF IsPassthrough(rest[i]) THEN Ok(rest[i].pre)
                      ELSE decryptString(rest[i], Raw(m.val), i \in pads)]
  IN  IF content = Absent THEN [ok |-> FALSE, err |-> "NotExist", out |-> Absent]
      ELSE IF ~StartsWith(secretKeyLine.pre, HeaderMarker)
        THEN [ok |-> FALSE, err |-> "InvalidFormat", out |-> Absent]
      ELSE IF ~derived.ok THEN [ok |-> FALSE, err |-> derived.err, out |-> Absent]
      ELSE IF ~opened.ok THEN [ok |-> FALSE, err |-> opened.err, out |-> Absent]
      ELSE IF ~m.found THEN [ok |-> FALSE, err |-> "InvalidFormat", out |-> Absent]
      ELSE IF FirstErr(results) # "" THEN [ok |-> FALSE, err |-> FirstErr(results), out |-> Absent]
      ELSE [ok |-> TRUE, err |-> "", out |-> [i \in 1..Len(rest) |-> Plain(results[i].val)]]

\* the calls of decryptString in decryptEnv that use a key other than the one
\* the token was made with (0 for the header, i for line i); only their
\* outcome depends on the padding
WrongKeyCalls(content, passphrase) ==
  LET hdr   == SplitEq1(content[1])
      dk    == deriveKeyFromPassphrase(passphrase).key
      hfits == hdr.pre = <<>> /\ hdr.tok # NoTok /\ hdr.tok.key = Scrypt(dk)
      m     == MatchLabel(hdr.tok.text)
  IN  IF ~hfits
      THEN IF hdr.pre = <<>> /\ hdr.tok # NoTok THEN {0} ELSE {}
      ELSE {i \in 1..(Len(content) - 1) :
              /\ ~IsPassthrough(content[i + 1])
              /\ content[i + 1].pre = <<>>
              /\ content[i + 1].tok # NoTok
              /\ content[i + 1].tok.key # Scrypt(Raw(m.val))}

\* ---- the working directory and the commands ---------------------------------
VARIABLES env, enc, pc, last, made

vars == <<env, enc, pc, last, made>>

\* answers that can be typed at a secret-key prompt
KeyChars == {"a", " "}

Keys == UNION {[1..n -> KeyChars] : n \in 0..MaxVal}

\* answers that can be typed at the passphrase prompt
Passes == {<<>>, <<"p">>, <<"q">>}

\* lines a hand-written .env is made of: blank, whitespace only, comment,
\* data (one of them an indented "#"), and key lines (plain, commented out,
\* without a value)
SampleLines ==
  { <<>>, <<" ">>, <<"#", "a">>, <<" ", "#">>, <<"a">>,
    Label \o <<"a">>, <<"#">> \o Label \o <<"a">>, Label }

Files(n) ==
  {Absent} \cup UNION {[1..k -> {Plain(t) : t \in SampleLines}] : k \in 1..n}

Cmd(c, e, a, b) == [cmd |-> c, err |-> e, a |-> a, b |-> b]

NotMade == [src |-> Absent, pass |-> <<>>]

\* a directory with at most a hand-written .env in it
Start(files) ==
  /\ env \in files
  /\ enc = Absent
  /\ pc = "idle"
  /\ last = Cmd("none", "", <<>>, <<>>)
  /\ made = NotMade

Init == Start(Files(MaxDirLines))

InitCodec == Start(Files(MaxLines))

\* a command that exits with an error before it writes anything
Fails(c, e, a, b) ==
  /\ last' = Cmd(c, e, a, b)
  /\ UNCHANGED <<env, enc, pc, made>>

\* env-secure set-key
SetKey ==
  /\ pc = "idle"
  /\ IF isSecretKeySet(env) THEN Fails("set-key", "AlreadySet", <<>>, <<>>)
     ELSE \E secretKey \in Keys :
            IF secretKey = <<>> THEN Fails("set-key", "KeyEmpty", <<>>, <<>>)
            ELSE /\ env' = updateSecretKey(secretKey)
                 /\ last' = Cmd("set-key", "", secretKey, <<>>)
                 /\ UNCHANGED <<enc, pc, made>>

\* env-secure rotate-key
RotateKey ==
  /\ pc = "idle"
  /\ IF ~isSecretKeySet(env) THEN Fails("rotate-key", "NotSet", <<>>, <<>>)
     ELSE \E currentSecretKey \in Keys :
            LET stored == getSecretKey(env)
            IN  IF ~(stored.found /\ stored.val = currentSecretKey)
                THEN Fails("rotate-key", "Incorrect", <<>>, <<>>)
                ELSE \E newSecretKey \in Keys :
                       IF newSecretKey = <<>>
                       THEN Fails("rotate-key", "NewKeyEmpty", <<>>, <<>>)
                       ELSE /\ env' = updateSecretKey(newSecretKey)
                            /\ last' = Cmd("rotate-key", "", currentSecretKey, newSecretKey)
                            /\ UNCHANGED <<enc, pc, made>>

\* env-secure encrypt, up to and including fs.writeFileSync(outputPath, ...)
Encrypt ==
  /\ pc = "idle"
  /\ IF env = Absent THEN Fails("encrypt", "NotExist", <<>>, <<>>)
     ELSE \E passphrase \in Passes :
            IF passphrase = <<>> THEN Fails("encrypt", "PassphraseEmpty", <<>>, <<>>)
            ELSE \E ivs \in [SealCalls(env) -> IVs] :
                   LET r == encryptEnv(env, passphrase, ivs)
                   IN  IF ~r.ok THEN Fails("encrypt", r.err, <<>>, <<>>)
                       ELSE /\ enc' = r.out
                            /\ pc' = "enc_remove"
                            /\ last' = Cmd("encrypt", "", passphrase, <<>>)
                            /\ made' = [src |-> env, pass |-> passphrase]
                            /\ UNCHANGED env

\* the removal in encryptEnv, were it to run with the output not on disk
\* (the original removed before the write has landed)
EncryptRemove_beforeWrite ==
  /\ pc = "enc_remove"
  /\ env' = Absent
  /\ enc' = Absent
  /\ pc' = "idle"
  /\ UNCHANGED <<last, made>>

\* encryptEnv: fs.removeSync(filePath)
EncryptRemove ==
  /\ pc = "enc_remove"
  /\ env' = Absent
  /\ pc' = "idle"
  /\ UNCHANGED <<enc, last, made>>

\* env-secure decrypt, up to and including fs.writeFileSync(outputPath, ...)
Decrypt ==
  /\ pc = "idle"
  /\ IF enc = Absent THEN Fails("decrypt", "NotExist", <<>>, <<>>)
     ELSE \E passphrase \in Passes :
            IF passphrase = <<>> THEN Fails("decrypt", "PassphraseEmpty", <<>>, <<>>)
            ELSE \E pads \in SUBSET WrongKeyCalls(enc, passphrase) :
                   LET r == decryptEnv(enc, passphrase, pads)
                   IN  IF ~r.ok THEN Fails("decrypt", r.err, passphrase, <<>>)
                       ELSE /\ env' = r.out
                            /\ pc' = "dec_remove"
                            /\ last' = Cmd("decrypt", "", passphrase, <<>>)
                            /\ UNCHANGED <<enc, made>>

\* decryptEnv: fs.removeSync(filePath)
DecryptRemove ==
  /\ pc = "dec_remove"
  /\ enc' = Absent
  /\ pc' = "idle"
  /\ UNCHANGED <<env, last, made>>

\* the process dies between the write and the remove
Crash ==
  /\ pc # "idle"
  /\ pc' = "idle"
  /\ last' = Cmd("crash", "", <<>>, <<>>)
  /\ UNCHANGED <<env, enc, made>>

Next ==
  \/ SetKey
  \/ RotateKey
  \/ Encrypt
  \/ EncryptRemove
  \/ Decrypt
  \/ DecryptRemove

\* the four commands, run one at a time in one directory
Spec == Init /\ [][Next]_vars

NextCrash ==
  \/ Next
  \/ Crash

\* the same, the process free to die between a write and the remove that
\* follows it
SpecCrash == Init /\ [][NextCrash]_vars

NextCodec ==
  \/ Encrypt
  \/ EncryptRemove
  \/ Decrypt
  \/ DecryptRemove

\* encryptEnv and decryptEnv applied to a .env file
SpecCodec == InitCodec /\ [][NextCodec]_vars

\* .env only ever holds plain text, which is what MatchFile reads
TypeOK ==
  /\ pc \in {"idle", "enc_remove", "dec_remove"}
  /\ \A i \in 1..Len(env) : env[i].tok = NoTok

\* ---- properties ------------------------------------------------------------
Contains(s, p) == Occurrences(s, p) # {}

\* a line of whitespace only, and a line whose first character is "#",
\* read off the characters
AllBlank(s) == \A i \in 1..Len(s) : s[i] = " "

HashFirst(s) == Len(s) > 0 /\ s[1] = "#"

Copied(line) == line.tok = NoTok /\ (AllBlank(line.pre) \/ HashFirst(line.pre))

IsToken(line) == line.pre = <<>> /\ line.tok # NoTok

\* C1: a successful encrypt followed by a decrypt with the same passphrase
\* succeeds and leaves in .env exactly the lines that were encrypted, in the
\* same order, and no .env.enc.
C1_FileRoundTrip ==
  (last.cmd = "decrypt" /\ last.a # <<>> /\ last.a = made.pass)
    => /\ last.err = ""
       /\ env = made.src
       /\ (pc = "idle" => enc = Absent)

C1_Witness ==
  /\ pc = "idle"
  /\ last.cmd = "decrypt"
  /\ last.err = ""
  /\ Len(made.src) = 3
  /\ \E i \in 1..3 : made.src[i].pre = Label \o <<"a">>
  /\ \E i \in 1..3 : Copied(made.src[i])
  /\ \E i \in 1..3 : ~Copied(made.src[i]) /\ ~Contains(made.src[i].pre, Label)

\* C4: when getSecretKey finds a key in .env, set-key fails with "already
\* set" and leaves .env, and so the stored key, as it was.
C4_SetKeyOnlyFirstTime ==
  [][(last'.cmd = "set-key" /\ getSecretKey(env).found)
       => /\ last'.err = "AlreadySet"
          /\ env' = env
          /\ getSecretKey(env') = getSecretKey(env)]_vars

C4_Witness ==
  /\ last.cmd = "set-key"
  /\ last.err = "AlreadySet"
  /\ getSecretKey(env).found
  /\ getSecretKey(env).val = <<"a">>

IsOutputOf(out, src, pass) ==
  \E ivs \in [SealCalls(src) -> IVs] :
    encryptEnv(src, pass, ivs).ok /\ encryptEnv(src, pass, ivs).out = out

\* C10: in encrypt and in decrypt the input file is removed only once the
\* complete output file is written and every error comes before the write:
\* a step of either command, a failure and a crash included, leaves the
\* input file as it was unless the output file is complete, never leaves
\* both files missing, and a failed command changes neither file.
C10_WriteBeforeRemove ==
  [][/\ last'.cmd = "encrypt"
          => /\ env' = env \/ (env' = Absent /\ enc' = enc /\ IsOutputOf(enc, env, last.a))
             /\ enc' # enc => IsOutputOf(enc', env, last'.a)
     /\ last'.cmd = "decrypt"
          => /\ enc' = enc \/ (enc' = Absent /\ env' = env /\ env = decryptEnv(enc, last.a, {}).out)
             /\ env' # env => decryptEnv(enc, last'.a, {}).ok /\ env' = decryptEnv(enc, last'.a, {}).out
     /\ (last'.cmd \in {"encrypt", "decrypt"} /\ last'.err # "") => (env' = env /\ enc' = enc)
     /\ last'.cmd = "crash" => (env' = env /\ enc' = enc)
     /\ (last'.cmd \in {"encrypt", "decrypt", "crash"} /\ (env # Absent \/ enc # Absent))
          => (env' # Absent \/ enc' # Absent)]_vars

C10_Witness ==
  /\ last.cmd = "crash"
  /\ pc = "idle"
  /\ env # Absent
  /\ enc # Absent
  /\ IsOutputOf(enc, env, made.pass)

\* C6 as stated: a decrypt of the file encrypt wrote under pass1, with a
\* passphrase pass2 # pass1, fails with the decryption error of the header
\* token and writes nothing.
C6_Original ==
  [][(last'.cmd = "decrypt" /\ enc # Absent /\ last'.a # <<>> /\ last'.a # made.pass)
       => /\ last'.err = "BadDecrypt"
          /\ env' = env
          /\ enc' = enc]_vars

\* C6 amended: such a decrypt fails and writes nothing; the error is the
\* decryption error of the header token, except that a wrong key that leaves
\* valid padding opens the header to garbage, which is then rejected as an
\* invalid file (secret key not found).
C6_WrongPassphraseFails ==
  [][(last'.cmd = "decrypt" /\ enc # Absent /\ last'.a # <<>> /\ last'.a # made.pass)
       => /\ last'.err \in {"BadDecrypt", "InvalidFormat"}
          /\ env' = env
          /\ enc' = enc
          /\ pc' = "idle"]_vars

C6_Witness ==
  /\ last.cmd = "decrypt"
  /\ last.err = "BadDecrypt"
  /\ enc # Absent
  /\ last.a # <<>>
  /\ last.a # made.pass
  /\ IsOutputOf(enc, made.src, made.pass)

\* C2: the key getSecretKey returned to the encrypt that wrote .env.enc is
\* not among the characters of any line of .env.enc (tokens show nothing of
\* what they hold).
C2_NoPlaintextKey ==
  (enc # Absent /\ last.cmd = "encrypt" /\ last.err = "")
    => \A i \in 1..Len(enc) : ~Contains(enc[i].pre, getSecretKey(made.src).val)

\* .env holds a key value; .env.enc holds a wrapped key in its header
EnvHoldsKey == getSecretKey(env).found /\ getSecretKey(env).val # <<>>

EncHoldsWrappedKey ==
  /\ enc # Absent
  /\ StartsWith(enc[1].pre, HeaderMarker)
  /\ enc[1].tok # NoTok

\* C3: between commands the secret key is in one place: never are there a
\* .env holding a key value and a .env.enc holding a wrapped key together.
C3_KeyInOnePlace == pc = "idle" => ~(EnvHoldsKey /\ EncHoldsWrappedKey)

\* C5: rotate-key succeeds only when a key is set, the current key entered is
\* the stored one and the new key is not empty, and getSecretKey then returns
\* the new key; a rotate-key that fails leaves the stored key as it was.
C5_RotateKey ==
  [][last'.cmd = "rotate-key"
       => IF last'.err = ""
          THEN /\ isSecretKeySet(env)
               /\ getSecretKey(env) = [found |-> TRUE, val |-> last'.a]
               /\ last'.b # <<>>
               /\ getSecretKey(env') = [found |-> TRUE, val |-> last'.b]
          ELSE /\ env' = env
               /\ getSecretKey(env') = getSecretKey(env)]_vars

\* C7: after a successful set-key or rotate-key the key is set and encrypt
\* succeeds with every non-empty passphrase.
C7_EncryptEnabledWhenKeySet ==
  (pc = "idle" /\ last.cmd \in {"set-key", "rotate-key"} /\ last.err = "")
    => /\ isSecretKeySet(env)
       /\ \A p \in Passes \ {<<>>} : \A ivs \in [SealCalls(env) -> IVs] :
            encryptEnv(env, p, ivs).ok

\* C9: a successful rotate-key or set-key on an existing .env keeps every
\* line of .env that is not a secret key entry, and leaves .env.enc alone.
C9_KeyChangeFrame ==
  [][(last'.cmd \in {"set-key", "rotate-key"} /\ last'.err = "" /\ env # Absent)
       => /\ enc' = enc
          /\ \A i \in 1..Len(env) :
               ~Contains(env[i].pre, Label) => \E j \in 1..Len(env') : env'[j] = env[i]]_vars

====
